---- MODULE Spec2Model ----
(***************************************************************************)
(* A model of the DDSketch quantile sketch (ddsketch/ddsketch.go), its     *)
(* logarithmic index mapping (ddsketch/mapping/logarithmic_mapping.go) and *)
(* the exact reference Dataset (dataset/dataset.go).                       *)
(*                                                                         *)
(* Representation of float64.  A positive value v is held as the           *)
(* fixed-point number Unit * log2(v); the order of values is the order of  *)
(* these numbers.  math.Log, math.Log1p and math.Exp are therefore exact   *)
(* on the points the model uses (rounding of the float operations is not   *)
(* modelled).  NaN, zero and negative values are not among the inputs.     *)
(* A quantile is held as the number of QDen-ths it stands for.             *)
(*                                                                         *)
(* The package ddsketch/store is not among the sources; its three stores   *)
(* are modelled from the specification's contract (section 4.2).           *)
(***************************************************************************)
EXTENDS Integers, Sequences, FiniteSets

\* ------------------------------------------------------------ numbers

\* The fixed-point unit of log2(value): a float64 holds Unit * log2(v).
Unit == 1000

\* math.MinInt16 and math.MaxInt16
MinInt16 == -32768
MaxInt16 == 32767

\* The largest int32 (the type of a count).
MaxInt32 == 2147483647

\* Half a 32-bit word: int32 arithmetic is carried out on 16-bit limbs so that
\* no intermediate result leaves the 32-bit range.
Limb == 65536

\* A count as a pair of limbs, hi unbounded: the mathematical integer
\* hi * Limb + lo.
ToWide(x) == [hi |-> x \div Limb, lo |-> x % Limb]

WideAdd(a, b) ==
    LET l == a.lo + b.lo
    IN  [hi |-> a.hi + b.hi + (l \div Limb), lo |-> l % Limb]

\* int32 addition, wrapping as Go's does.
Add32(a, b) ==
    LET w == WideAdd(ToWide(a), ToWide(b))
        h == ((w.hi + (Limb \div 2)) % Limb) - (Limb \div 2)
    IN  h * Limb + w.lo

\* int32 subtraction of one, wrapping.
Dec32(a) == Add32(a, -1)

Max(a, b) == IF a >= b THEN a ELSE b
Min(a, b) == IF a <= b THEN a ELSE b

\* Go's conversion int(x) of a float64: truncation toward zero.  x is a
\* fixed-point number with denominator d.
ToInt(x, d) == IF x >= 0 THEN x \div d ELSE -((-x) \div d)

\* ------------------------------------------------------------ errors

Nil == "nil"
ErrValueOutOfRange == "input value is outside the range that is tracked by the sketch"
ErrNegativeCount == "count cannot be negative"
ErrInvalidQuantile == "quantile must be between 0 and 1"
ErrNoSuchElement == "no such element exists"
ErrIncompatibleMapping == "cannot merge sketches with different index mappings"
ErrInvalidAccuracy == "The relative accuracy must be between 0 and 1."
ErrInvalidGamma == "Gamma must be greater than 1."
ErrEmptyStore == "EmptyState"

\* math.NaN(), the value returned beside an error
NaN == "NaN"

\* ------------------------------------------------------------ mapping

\* Unit * log2(num / den), for the ratios the mappings of the model need
\* (math.Log and math.Log1p on these points).
Log2(num, den) ==
    CASE num = den         -> 0
      [] num = 2 * den     -> Unit
      [] num = 4 * den     -> 2 * Unit
      [] 3 * num = 4 * den -> 415
      [] 5 * num = 8 * den -> 678
      [] 3 * num = 2 * den -> -585
      [] 5 * num = 2 * den -> -1322

\* Unit * log2(e): one unit of a natural logarithm.
Log2E == 1443

\* Unit * log2 of minNormalFloat64 = 2^-1022
minNormalFloat64 == -1022000

\* Unit * log2 of exp(expOverflow), expOverflow = 7.094361393031e+02
expOverflow == 1023500

\* x / multiplier, as Unit * log2 of its exponential: the multiplier field
\* holds Unit * ln(2) / ln(gamma).
DivMultiplier(x, multiplier) == ((x * Unit) \div multiplier) * Unit

computeMinIndexableValue(m) ==
    Max(DivMultiplier(MinInt16 - m.normalizedIndexOffset, m.multiplier) + Log2E,
        minNormalFloat64
          + Log2(m.relativeAccuracy.den + m.relativeAccuracy.num,
                 m.relativeAccuracy.den - m.relativeAccuracy.num))

computeMaxIndexableValue(m) ==
    Min(DivMultiplier(MaxInt16 - m.normalizedIndexOffset, m.multiplier) - Log2E,
        expOverflow
          - Log2(m.relativeAccuracy.den + m.relativeAccuracy.num,
                 m.relativeAccuracy.den))

\* relativeAccuracy is the rational num / den.
NewLogarithmicMapping(relativeAccuracy) ==
    IF relativeAccuracy.num <= 0 \/ relativeAccuracy.num >= relativeAccuracy.den
    THEN [err |-> ErrInvalidAccuracy]
    ELSE LET m == [relativeAccuracy |-> relativeAccuracy,
                   multiplier |->
                       (Unit * Unit) \div
                           Log2(relativeAccuracy.den + relativeAccuracy.num,
                                relativeAccuracy.den - relativeAccuracy.num),
                   normalizedIndexOffset |-> 0]
         IN  [err |-> Nil,
              relativeAccuracy |-> m.relativeAccuracy,
              multiplier |-> m.multiplier,
              normalizedIndexOffset |-> m.normalizedIndexOffset,
              minIndexableValue |-> computeMinIndexableValue(m),
              maxIndexableValue |-> computeMaxIndexableValue(m)]

\* gamma is the rational num / den and indexOffset a whole number; the relative
\* accuracy 1 - 2/(1+gamma) is (gamma - 1) / (gamma + 1).
NewLogarithmicMappingWithGamma(gamma, indexOffset) ==
    IF gamma.num <= gamma.den
    THEN [err |-> ErrInvalidGamma]
    ELSE LET m == [relativeAccuracy |-> [num |-> gamma.num - gamma.den,
                                         den |-> gamma.num + gamma.den],
                   multiplier |-> (Unit * Unit) \div Log2(gamma.num, gamma.den),
                   normalizedIndexOffset |-> indexOffset]
         IN  [err |-> Nil,
              relativeAccuracy |-> m.relativeAccuracy,
              multiplier |-> m.multiplier,
              normalizedIndexOffset |-> m.normalizedIndexOffset,
              minIndexableValue |-> computeMinIndexableValue(m),
              maxIndexableValue |-> computeMaxIndexableValue(m)]

\* |x - y| <= tol; the tolerance 1e-12 is below one unit of the fixed point.
withinTolerance(x, y, tol) == (IF x >= y THEN x - y ELSE y - x) <= tol

Equals(m, other) ==
    LET tol == 0
    IN  /\ withinTolerance(m.multiplier, other.multiplier, tol)
        /\ withinTolerance(m.normalizedIndexOffset, other.normalizedIndexOffset, tol)

\* The raw index ln(value) * multiplier + offset, with denominator Unit * Unit.
RawIndex(m, value) ==
    value * m.multiplier + m.normalizedIndexOffset * Unit * Unit

\* Mutant: the two branches of the floor emulation are swapped.
Index_BranchesSwapped(m, value) ==
    LET index == RawIndex(m, value)
    IN  IF index >= 0
        THEN ToInt(index, Unit * Unit) - 1
        ELSE ToInt(index, Unit * Unit)

Index(m, value) ==
    LET index == RawIndex(m, value)
    IN  IF index >= 0
        THEN ToInt(index, Unit * Unit)
        ELSE ToInt(index, Unit * Unit) - 1

\* Mutant: the lower bound of the bucket, without the factor 1 + relativeAccuracy.
Value_LowerBound(m, index) ==
    DivMultiplier(index - m.normalizedIndexOffset, m.multiplier)

\* Unit * log2 of exp((index - offset) / multiplier) * (1 + relativeAccuracy)
Value(m, index) ==
    DivMultiplier(index - m.normalizedIndexOffset, m.multiplier)
      + Log2(m.relativeAccuracy.den + m.relativeAccuracy.num, m.relativeAccuracy.den)

MinIndexableValue(m) == m.minIndexableValue
MaxIndexableValue(m) == m.maxIndexableValue

\* ------------------------------------------------------------ state

VARIABLES
    sketches,   \* sketch variable -> [IndexMapping, store]; store is a reference
    stores,     \* the heap of stores: reference -> store
    added,      \* history: per sketch variable, the exact sum of the counts put in
    collapsed,  \* history: per sketch variable, whether its store ever collapsed
    built,      \* history: per sketch variable, the constructor call it comes from
    ops,        \* number of successful mutating calls made so far
    ds,         \* the reference Dataset
    probe,      \* a mapping under test: [pc, m, value, index, back]
    trail,      \* history kept by the steps of SpecCollapse: per sketch
                \* variable, [shadow, merged, limit, limited, wrapped]
    fed         \* history: the values added to the reference Dataset, ascending

vars == <<sketches, stores, added, collapsed, built, ops, ds, probe, trail, fed>>

\* ------------------------------------------------------------ store
\* A store is [kind, maxNumBins, bins]; bins maps each index holding a
\* nonzero count to that count.  totalCount, minIndex and maxIndex are
\* derived from bins.

MinOf(S) == CHOOSE x \in S : \A y \in S : x <= y
MaxOf(S) == CHOOSE x \in S : \A y \in S : x >= y

Without(b, i) == [k \in DOMAIN b \ {i} |-> b[k]]

\* The bucket map with bucket i set to count c; a zero count is no bucket.
Put(b, i, c) ==
    IF c = 0
    THEN Without(b, i)
    ELSE [k \in DOMAIN b \cup {i} |-> IF k = i THEN c ELSE b[k]]

CountAt(b, i) == IF i \in DOMAIN b THEN b[i] ELSE 0

\* No bucket holds a count.
EmptyBins == [k \in {} |-> 0]

NewDenseStore == [kind |-> "unbounded", maxNumBins |-> 0, bins |-> EmptyBins]

NewCollapsingLowestDenseStore(maxNumBins) ==
    [kind |-> "lowest", maxNumBins |-> maxNumBins, bins |-> EmptyBins]

NewCollapsingHighestDenseStore(maxNumBins) ==
    [kind |-> "highest", maxNumBins |-> maxNumBins, bins |-> EmptyBins]

RECURSIVE CollapseLowest(_, _)
\* Merge the lowest bucket into the next one until at most n are left.
CollapseLowest(b, n) ==
    IF Cardinality(DOMAIN b) <= n \/ Cardinality(DOMAIN b) <= 1
    THEN b
    ELSE LET lo == MinOf(DOMAIN b)
             rest == Without(b, lo)
             nxt == MinOf(DOMAIN rest)
         IN  CollapseLowest(Put(rest, nxt, Add32(rest[nxt], b[lo])), n)

RECURSIVE CollapseHighest(_, _)
\* Merge the highest bucket into the one below until at most n are left.
CollapseHighest(b, n) ==
    IF Cardinality(DOMAIN b) <= n \/ Cardinality(DOMAIN b) <= 1
    THEN b
    ELSE LET hi == MaxOf(DOMAIN b)
             rest == Without(b, hi)
             nxt == MaxOf(DOMAIN rest)
         IN  CollapseHighest(Put(rest, nxt, Add32(rest[nxt], b[hi])), n)

Collapse(st, b) ==
    CASE st.kind = "unbounded" -> b
      [] st.kind = "lowest"    -> CollapseLowest(b, st.maxNumBins)
      [] st.kind = "highest"   -> CollapseHighest(b, st.maxNumBins)

StoreAddWithCount(st, index, count) ==
    [st EXCEPT !.bins = Collapse(st, Put(st.bins, index,
                                         Add32(CountAt(st.bins, index), count)))]

RECURSIVE SumBins(_)
SumBins(b) ==
    IF DOMAIN b = {}
    THEN 0
    ELSE LET i == MinOf(DOMAIN b) IN Add32(b[i], SumBins(Without(b, i)))

StoreTotalCount(st) == SumBins(st.bins)

StoreIsEmpty(st) == StoreTotalCount(st) = 0

StoreMinIndex(st) ==
    IF StoreIsEmpty(st) \/ DOMAIN st.bins = {}
    THEN [index |-> 0, err |-> ErrEmptyStore]
    ELSE [index |-> MinOf(DOMAIN st.bins), err |-> Nil]

StoreMaxIndex(st) ==
    IF StoreIsEmpty(st) \/ DOMAIN st.bins = {}
    THEN [index |-> 0, err |-> ErrEmptyStore]
    ELSE [index |-> MaxOf(DOMAIN st.bins), err |-> Nil]

RECURSIVE KeyScan(_, _, _)
\* The first index, ascending, at which the running count exceeds pos;
\* the last index when none does.
KeyScan(b, n, pos) ==
    LET i == MinOf(DOMAIN b)
        m == Add32(n, b[i])
    IN  IF m > pos \/ DOMAIN b = {i} THEN i ELSE KeyScan(Without(b, i), m, pos)

\* rank is a float64, held as [int, frac]: int + frac / QDen, int its floor.
StoreKeyAtRank(st, rank) ==
    IF DOMAIN st.bins = {} THEN 0 ELSE KeyScan(st.bins, 0, rank.int)

RECURSIVE MergeFold(_, _)
MergeFold(st, ob) ==
    IF DOMAIN ob = {}
    THEN st
    ELSE LET i == MinOf(DOMAIN ob)
         IN  MergeFold(StoreAddWithCount(st, i, ob[i]), Without(ob, i))

StoreMergeWith(st, other) == MergeFold(st, other.bins)

StoreCopy(st) == [kind |-> st.kind, maxNumBins |-> st.maxNumBins, bins |-> st.bins]

RECURSIVE BinSeq(_)
BinSeq(b) ==
    IF DOMAIN b = {}
    THEN <<>>
    ELSE LET i == MinOf(DOMAIN b)
         IN  <<[index |-> i, count |-> b[i]]>> \o BinSeq(Without(b, i))

StoreBins(st) == BinSeq(st.bins)

\* ------------------------------------------------------------ sketch
\* A sketch s is [IndexMapping, store]; store is the address of its store in
\* the heap h (address -> store).  An operation that changes a store returns
\* the heap afterwards.

\* The quantile denominator: quantile q stands for q / QDen.
QDen == 4

NewDDSketch(indexMapping, store) == [IndexMapping |-> indexMapping, store |-> store]

\* The three constructors; ref is the address of the store they allocate.
LogUnboundedDenseDDSketch(relativeAccuracy, ref) ==
    LET indexMapping == NewLogarithmicMapping(relativeAccuracy)
    IN  IF indexMapping.err # Nil
        THEN [err |-> indexMapping.err]
        ELSE [err |-> Nil, sketch |-> NewDDSketch(indexMapping, ref),
              store |-> NewDenseStore]

\* Mutant: the constructor allocates the unbounded store.
LogCollapsingLowestDenseDDSketch_DenseStore(relativeAccuracy, maxNumBins, ref) ==
    LET indexMapping == NewLogarithmicMapping(relativeAccuracy)
    IN  IF indexMapping.err # Nil
        THEN [err |-> indexMapping.err]
        ELSE [err |-> Nil, sketch |-> NewDDSketch(indexMapping, ref),
              store |-> NewDenseStore]

LogCollapsingLowestDenseDDSketch(relativeAccuracy, maxNumBins, ref) ==
    LET indexMapping == NewLogarithmicMapping(relativeAccuracy)
    IN  IF indexMapping.err # Nil
        THEN [err |-> indexMapping.err]
        ELSE [err |-> Nil, sketch |-> NewDDSketch(indexMapping, ref),
              store |-> NewCollapsingLowestDenseStore(maxNumBins)]

LogCollapsingHighestDenseDDSketch(relativeAccuracy, maxNumBins, ref) ==
    LET indexMapping == NewLogarithmicMapping(relativeAccuracy)
    IN  IF indexMapping.err # Nil
        THEN [err |-> indexMapping.err]
        ELSE [err |-> Nil, sketch |-> NewDDSketch(indexMapping, ref),
              store |-> NewCollapsingHighestDenseStore(maxNumBins)]

\* Mutant: the count is checked after the store was changed.
AddWithCount_CountCheckedLate(h, s, value, count) ==
    IF value < MinIndexableValue(s.IndexMapping) \/ value > MaxIndexableValue(s.IndexMapping)
    THEN [err |-> ErrValueOutOfRange, stores |-> h]
    ELSE LET h2 == [h EXCEPT ![s.store] =
                       StoreAddWithCount(@, Index(s.IndexMapping, value), count)]
         IN  IF count < 0
             THEN [err |-> ErrNegativeCount, stores |-> h2]
             ELSE [err |-> Nil, stores |-> h2]

\* The result is [err, stores]: the error returned and the heap afterwards.
AddWithCount(h, s, value, count) ==
    IF value < MinIndexableValue(s.IndexMapping) \/ value > MaxIndexableValue(s.IndexMapping)
    THEN [err |-> ErrValueOutOfRange, stores |-> h]
    ELSE IF count < 0
    THEN [err |-> ErrNegativeCount, stores |-> h]
    ELSE [err |-> Nil,
          stores |-> [h EXCEPT ![s.store] =
                         StoreAddWithCount(@, Index(s.IndexMapping, value), count)]]

Add(h, s, value) == AddWithCount(h, s, value, 1)

\* Mutant: the copy shares the store of the sketch.
Copy_SharedStore(h, s, ref) ==
    [sketch |-> [IndexMapping |-> s.IndexMapping, store |-> s.store],
     stores |-> h]

\* The result is [sketch, stores]; ref is the address store.Copy() allocates.
Copy(h, s, ref) ==
    [sketch |-> [IndexMapping |-> s.IndexMapping, store |-> ref],
     stores |-> [h EXCEPT ![ref] = StoreCopy(h[s.store])]]

GetCount(h, s) == StoreTotalCount(h[s.store])

\* Mutant: a sketch is empty when its count is not positive.
IsEmpty_NotPositive(h, s) == StoreTotalCount(h[s.store]) <= 0

IsEmpty(h, s) == StoreIsEmpty(h[s.store])

\* quantile * float64(x), as [int, frac]: int + frac / QDen with int the floor.
MulQuantile(quantile, x) ==
    LET r == quantile * (x % QDen)
    IN  [int |-> quantile * (x \div QDen) + (r \div QDen), frac |-> r % QDen]

\* Mutant: the empty sketch is not told apart.
GetIndexAtQuantile_NoEmptyCheck(h, s, quantile) ==
    IF quantile < 0 \/ quantile > QDen
    THEN [index |-> 0, err |-> ErrInvalidQuantile]
    ELSE LET rank == MulQuantile(quantile, Dec32(GetCount(h, s)))
         IN  [index |-> StoreKeyAtRank(h[s.store], rank), err |-> Nil]

\* Mutant: the rank is taken of count, not of count - 1.
GetIndexAtQuantile_RankOfCount(h, s, quantile) ==
    IF quantile < 0 \/ quantile > QDen
    THEN [index |-> 0, err |-> ErrInvalidQuantile]
    ELSE LET count == GetCount(h, s)
         IN  IF count = 0
             THEN [index |-> 0, err |-> ErrNoSuchElement]
             ELSE LET rank == MulQuantile(quantile, count)
                  IN  [index |-> StoreKeyAtRank(h[s.store], rank), err |-> Nil]

GetIndexAtQuantile(h, s, quantile) ==
    IF quantile < 0 \/ quantile > QDen
    THEN [index |-> 0, err |-> ErrInvalidQuantile]
    ELSE LET count == GetCount(h, s)
         IN  IF count = 0
             THEN [index |-> 0, err |-> ErrNoSuchElement]
             ELSE LET rank == MulQuantile(quantile, Dec32(count))
                  IN  [index |-> StoreKeyAtRank(h[s.store], rank), err |-> Nil]

GetValueAtQuantile(h, s, quantile) ==
    LET r == GetIndexAtQuantile(h, s, quantile)
    IN  IF r.err # Nil
        THEN [value |-> NaN, err |-> r.err]
        ELSE [value |-> Value(s.IndexMapping, r.index), err |-> Nil]

RECURSIVE ValuesLoop(_, _, _, _, _)
\* The loop of GetValuesAtQuantiles from position i on.
ValuesLoop(h, s, quantiles, i, values) ==
    IF i > Len(quantiles)
    THEN [values |-> values, err |-> Nil]
    ELSE LET r == GetValueAtQuantile(h, s, quantiles[i])
         IN  IF r.err # Nil
             THEN [values |-> Nil, err |-> r.err]
             ELSE ValuesLoop(h, s, quantiles, i + 1, [values EXCEPT ![i] = r.value])

GetValuesAtQuantiles(h, s, quantiles) ==
    ValuesLoop(h, s, quantiles, 1, [i \in 1..Len(quantiles) |-> 0])

GetMaxValue(h, s) ==
    LET r == StoreMaxIndex(h[s.store])
    IN  IF r.err # Nil
        THEN [value |-> NaN, err |-> r.err]
        ELSE [value |-> Value(s.IndexMapping, r.index), err |-> Nil]

GetMinValue(h, s) ==
    LET r == StoreMinIndex(h[s.store])
    IN  IF r.err # Nil
        THEN [value |-> NaN, err |-> r.err]
        ELSE [value |-> Value(s.IndexMapping, r.index), err |-> Nil]

\* Mutant: the stores are merged before the mappings are compared.
MergeWith_CheckedLate(h, s, other) ==
    LET h2 == [h EXCEPT ![s.store] = StoreMergeWith(@, h[other.store])]
    IN  IF ~Equals(s.IndexMapping, other.IndexMapping)
        THEN [err |-> ErrIncompatibleMapping, stores |-> h2]
        ELSE [err |-> Nil, stores |-> h2]

\* Mutant: the merge goes into the store of the other sketch.
MergeWith_IntoOther(h, s, other) ==
    IF ~Equals(s.IndexMapping, other.IndexMapping)
    THEN [err |-> ErrIncompatibleMapping, stores |-> h]
    ELSE [err |-> Nil,
          stores |-> [h EXCEPT ![other.store] = StoreMergeWith(@, h[s.store])]]

\* The result is [err, stores].
MergeWith(h, s, other) ==
    IF ~Equals(s.IndexMapping, other.IndexMapping)
    THEN [err |-> ErrIncompatibleMapping, stores |-> h]
    ELSE [err |-> Nil,
          stores |-> [h EXCEPT ![s.store] = StoreMergeWith(@, h[other.store])]]

Bins(h, s) == StoreBins(h[s.store])

\* ------------------------------------------------------------ dataset

NewDataset == [Values |-> <<>>, Count |-> 0, sorted |-> FALSE]

\* Mutant: Add leaves the sorted flag as it is.
DatasetAdd_KeepsSorted(d, v) ==
    [Values |-> Append(d.Values, v), Count |-> Add32(d.Count, 1), sorted |-> d.sorted]

DatasetAdd(d, v) ==
    [Values |-> Append(d.Values, v), Count |-> Add32(d.Count, 1), sorted |-> FALSE]

RECURSIVE Insert(_, _)
\* v put into the ascending sequence s at its place.
Insert(s, v) ==
    IF s = <<>> THEN <<v>>
    ELSE IF v <= Head(s) THEN <<v>> \o s
    ELSE <<Head(s)>> \o Insert(Tail(s), v)

RECURSIVE Float64s(_)
\* sort.Float64s: the values in ascending order.
Float64s(s) == IF s = <<>> THEN <<>> ELSE Insert(Float64s(Tail(s)), Head(s))

sort(d) ==
    IF d.sorted THEN d ELSE [d EXCEPT !.Values = Float64s(@), !.sorted = TRUE]

\* The result is [value, d]: the value returned and the dataset afterwards.
LowerQuantile(d, q) ==
    IF q < 0 \/ q > QDen \/ d.Count = 0
    THEN [value |-> NaN, d |-> d]
    ELSE LET d2 == sort(d)
             rank == MulQuantile(q, Dec32(d2.Count))
         IN  [value |-> d2.Values[rank.int + 1], d |-> d2]

Quantile(d, q) == LowerQuantile(d, q)

\* The result is [panic, value, d]: on an empty dataset the code indexes
\* Values[0] and panics.
DatasetMin(d) ==
    LET d2 == sort(d)
    IN  IF d2.Values = <<>>
        THEN [panic |-> TRUE, value |-> 0, d |-> d2]
        ELSE [panic |-> FALSE, value |-> d2.Values[1], d |-> d2]

DatasetMax(d) ==
    LET d2 == sort(d)
    IN  IF d2.Values = <<>>
        THEN [panic |-> TRUE, value |-> 0, d |-> d2]
        ELSE [panic |-> FALSE, value |-> d2.Values[Len(d2.Values)], d |-> d2]

RECURSIVE MergeLoop(_, _)
\* for _, v := range values { d.Add(v) }
MergeLoop(d, values) ==
    IF values = <<>> THEN d ELSE MergeLoop(DatasetAdd(d, Head(values)), Tail(values))

\* d.Merge(o): the range is over o.Values as it is when the loop starts.
DatasetMerge(d, o) == MergeLoop(d, o.Values)

\* ------------------------------------------------------------ inputs

\* maxNumBins of the collapsing-lowest sketch; the collapsing-highest one is
\* built with one bin less.
MaxNumBins == 2

\* The number of successful mutating calls a behaviour makes.
MaxOps == 3

\* The number of values fed to the sketches and the reference dataset.
MaxFeed == 4

\* The longest sequence of quantiles asked for at once.
MaxQuantiles == 2

SketchIds == 1..3

\* Relative accuracies 1/3 and 3/5: gamma = 2 and gamma = 4.
Accuracy1 == [num |-> 1, den |-> 3]
Accuracy2 == [num |-> 3, den |-> 5]

\* Values below the smallest indexable value and above the largest one.
TooSmall == 0 - 1030 * Unit
TooLarge == 1023 * Unit + 900

\* Indexable values: 1/4 (its raw index a negative whole number under both
\* accuracies), 2^(-1/2) and 2^(3/2).
Indexable == {0 - 2 * Unit, 0 - (Unit \div 2), Unit + (Unit \div 2)}

Values == Indexable \cup {TooSmall, TooLarge}

Counts == {-1, 0, 1, MaxInt32}

\* Quantiles, with one below 0 and one above 1.
Quantiles == -1 .. (QDen + 1)

\* ------------------------------------------------------------ behaviour

\* The constructor call behind sketch variable i.
Constructor(i) ==
    CASE i = 1 -> [name |-> "LogCollapsingLowestDenseDDSketch", maxNumBins |-> MaxNumBins]
      [] i = 2 -> [name |-> "LogCollapsingHighestDenseDDSketch", maxNumBins |-> MaxNumBins - 1]
      [] i = 3 -> [name |-> "LogUnboundedDenseDDSketch", maxNumBins |-> 0]

Fixture(i) ==
    CASE i = 1 -> LogCollapsingLowestDenseDDSketch(Accuracy1, MaxNumBins, i)
      [] i = 2 -> LogCollapsingHighestDenseDDSketch(Accuracy1, MaxNumBins - 1, i)
      [] i = 3 -> LogUnboundedDenseDDSketch(Accuracy2, i)

\* The history of a store to which nothing was added.  shadow: index -> the
\* exact sum of the nonzero counts added at that index; merged: whether another
\* sketch was merged in (shadow is then left alone); limit: the lowest
\* (collapsing-lowest) or highest (collapsing-highest) index held right after
\* the latest collapse, meaningful once limited; wrapped: whether a count ever
\* passed MaxInt32.
NoTrail ==
    [shadow |-> EmptyBins, merged |-> FALSE, limit |-> 0, limited |-> FALSE,
     wrapped |-> FALSE]

\* No mapping is under test.
NoProbe == [pc |-> "idle", m |-> Nil, value |-> 0, index |-> 0, back |-> 0]

\* The sketches of a run, as their constructors leave them.
InitSketches ==
    /\ sketches = [i \in SketchIds |-> Fixture(i).sketch]
    /\ stores = [i \in SketchIds |-> Fixture(i).store]
    /\ added = [i \in SketchIds |-> ToWide(0)]
    /\ collapsed = [i \in SketchIds |-> FALSE]
    /\ built = [i \in SketchIds |-> Constructor(i)]
    /\ ops = 0
    /\ ds = NewDataset
    /\ trail = [i \in SketchIds |-> NoTrail]
    /\ fed = <<>>

Init == InitSketches /\ probe = NoProbe

\* A call that changes a sketch counts against the budget.
Budget(err) == IF err = Nil THEN ops < MaxOps /\ ops' = ops + 1 ELSE ops' = ops

\* The heap with every store made an unbounded one.
Unbounded(h) == [ref \in DOMAIN h |-> [h[ref] EXCEPT !.kind = "unbounded"]]

\* Whether the step from heap h to heap h2 collapsed buckets of the store of
\* s: h2u is the heap the same call yields on unbounded stores.
Collapses(h2, h2u, s) == h2[s.store].bins # h2u[s.store].bins

DoAddWithCount(i, value, count) ==
    LET s == sketches[i]
        r == AddWithCount(stores, s, value, count)
    IN  /\ Budget(r.err)
        /\ stores' = r.stores
        /\ added' = IF r.err = Nil
                    THEN [added EXCEPT ![i] = WideAdd(@, ToWide(count))]
                    ELSE added
        /\ collapsed' =
               [collapsed EXCEPT ![i] =
                   @ \/ Collapses(r.stores,
                                  AddWithCount(Unbounded(stores), s, value, count).stores, s)]
        /\ UNCHANGED <<sketches, built, ds, probe, trail, fed>>

DoAdd(i, value) ==
    LET s == sketches[i]
        r == Add(stores, s, value)
    IN  /\ Budget(r.err)
        /\ stores' = r.stores
        /\ added' = IF r.err = Nil
                    THEN [added EXCEPT ![i] = WideAdd(@, ToWide(1))]
                    ELSE added
        /\ collapsed' =
               [collapsed EXCEPT ![i] =
                   @ \/ Collapses(r.stores, Add(Unbounded(stores), s, value).stores, s)]
        /\ UNCHANGED <<sketches, built, ds, probe, trail, fed>>

DoMergeWith(i, j) ==
    LET s == sketches[i]
        r == MergeWith(stores, s, sketches[j])
    IN  /\ Budget(r.err)
        /\ stores' = r.stores
        /\ added' = IF r.err = Nil
                    THEN [added EXCEPT ![i] =
                             WideAdd(@, ToWide(GetCount(stores, sketches[j])))]
                    ELSE added
        /\ collapsed' =
               [collapsed EXCEPT ![i] =
                   @ \/ Collapses(r.stores,
                                  MergeWith(Unbounded(stores), s, sketches[j]).stores, s)]
        /\ UNCHANGED <<sketches, built, ds, probe, trail, fed>>

\* The address of a new store: one no other sketch variable than j refers to
\* (variable j is about to be overwritten; its own cell is taken when free).
FreshRef(j) ==
    IF \A k \in SketchIds \ {j} : sketches[k].store # j
    THEN j
    ELSE CHOOSE ref \in SketchIds : \A k \in SketchIds \ {j} : sketches[k].store # ref

\* sketches[j] = sketches[i].Copy()
DoCopy(i, j) ==
    LET r == Copy(stores, sketches[i], FreshRef(j))
    IN  /\ i # j
        /\ Budget(Nil)
        /\ sketches' = [sketches EXCEPT ![j] = r.sketch]
        /\ stores' = r.stores
        /\ added' = [added EXCEPT ![j] = ToWide(GetCount(r.stores, r.sketch))]
        /\ collapsed' = [collapsed EXCEPT ![j] = collapsed[i]]
        /\ built' = [built EXCEPT ![j] = built[i]]
        /\ UNCHANGED <<ds, probe, trail, fed>>

Next ==
    \/ \E i \in SketchIds, value \in Values, count \in Counts :
           DoAddWithCount(i, value, count)
    \/ \E i \in SketchIds, value \in Values : DoAdd(i, value)
    \/ \E i, j \in SketchIds : DoMergeWith(i, j)
    \/ \E i, j \in SketchIds : DoCopy(i, j)

Spec == Init /\ [][Next]_vars

\* The sketch that is fed the values of the reference dataset: the unbounded one.
Paired == CHOOSE i \in SketchIds : Constructor(i).name = "LogUnboundedDenseDDSketch"

\* A test feeds one value to the sketch and to the reference dataset.
Feed(value) ==
    LET s == sketches[Paired]
        r == Add(stores, s, value)
    IN  /\ Len(ds.Values) < MaxFeed
        /\ stores' = r.stores
        /\ ds' = DatasetAdd(ds, value)
        /\ added' = IF r.err = Nil
                    THEN [added EXCEPT ![Paired] = WideAdd(@, ToWide(1))]
                    ELSE added
        /\ UNCHANGED <<sketches, collapsed, built, ops, probe, trail>>
        /\ fed' = Insert(fed, value)

\* ds.Quantile(q): the dataset sorts itself.
AskQuantile(q) ==
    /\ ds' = Quantile(ds, q).d
    /\ UNCHANGED <<sketches, stores, added, collapsed, built, ops, probe, trail, fed>>

NextRef ==
    \/ \E value \in Values : Feed(value)
    \/ \E q \in Quantiles : AskQuantile(q)

SpecRef == Init /\ [][NextRef]_vars

\* The values put to a mapping under test lie MaxProbe quarter units either
\* side of 1.
MaxProbe == 12

\* The mappings under test: relative accuracy 1/3 and 3/5, and gamma = 2 with
\* index offset -2 (the raw index of the value 1 is then exactly -2).
ProbeMappings ==
    {NewLogarithmicMapping(Accuracy1),
     NewLogarithmicMapping(Accuracy2),
     NewLogarithmicMappingWithGamma([num |-> 2, den |-> 1], -2)}

\* The values under test: a grid around 1, the smallest and largest
\* indexable values of the mappings, and the values next to them.
ProbeValues ==
    {k * (Unit \div 4) : k \in (0 - MaxProbe) .. MaxProbe}
      \cup UNION {{MinIndexableValue(m), MinIndexableValue(m) - 1,
                   MaxIndexableValue(m), MaxIndexableValue(m) + 1} : m \in ProbeMappings}

InitMap ==
    /\ InitSketches
    /\ probe \in {[pc |-> "start", m |-> m, value |-> value, index |-> 0, back |-> 0] :
                      m \in ProbeMappings, value \in ProbeValues}

\* probe.index = probe.m.Index(probe.value)
ProbeIndex ==
    /\ probe.pc = "start"
    /\ probe' = [probe EXCEPT !.pc = "indexed", !.index = Index(probe.m, probe.value)]
    /\ UNCHANGED <<sketches, stores, added, collapsed, built, ops, ds, trail, fed>>

\* probe.back = probe.m.Value(probe.index)
ProbeValue ==
    /\ probe.pc = "indexed"
    /\ probe' = [probe EXCEPT !.pc = "valued", !.back = Value(probe.m, probe.index)]
    /\ UNCHANGED <<sketches, stores, added, collapsed, built, ops, ds, trail, fed>>

NextMap == ProbeIndex \/ ProbeValue

SpecMap == InitMap /\ [][NextMap]_vars

\* The number of calls made on the bounded sketches.
MaxSteps == 4

\* The sketches with a collapsing store: both have relative accuracy 1/3.
Bounded == {i \in SketchIds : Constructor(i).name # "LogUnboundedDenseDDSketch"}

CollapseCounts == {0, 1, MaxInt32}

\* The index a store that holds buckets has at the end it collapses.
EndIndex(st) ==
    IF st.kind = "lowest" THEN MinOf(DOMAIN st.bins) ELSE MaxOf(DOMAIN st.bins)

\* The trail tr of a sketch after a call that took it from count pre to count
\* post with incoming the count handed to it; now tells whether the call
\* collapsed buckets, st is the store afterwards.
Track(tr, shadow, merged, pre, incoming, post, now, st) ==
    LET limits == now /\ DOMAIN st.bins # {}
    IN  [shadow  |-> shadow,
         merged  |-> merged,
         limit   |-> IF limits THEN EndIndex(st) ELSE tr.limit,
         limited |-> tr.limited \/ limits,
         wrapped |-> tr.wrapped \/ WideAdd(ToWide(pre), ToWide(incoming)) # ToWide(post)]

\* sketches[i].AddWithCount(value, count) on a bounded sketch
CollapsingAdd(i, value, count) ==
    LET s == sketches[i]
        r == AddWithCount(stores, s, value, count)
        index == Index(s.IndexMapping, value)
        now == Collapses(r.stores, AddWithCount(Unbounded(stores), s, value, count).stores, s)
        shadow == IF trail[i].merged \/ count = 0
                  THEN trail[i].shadow
                  ELSE [k \in DOMAIN trail[i].shadow \cup {index} |->
                           IF k = index
                           THEN WideAdd(IF k \in DOMAIN trail[i].shadow
                                        THEN trail[i].shadow[k]
                                        ELSE ToWide(0),
                                        ToWide(count))
                           ELSE trail[i].shadow[k]]
    IN  /\ ops < MaxSteps
        /\ r.err = Nil
        /\ ops' = ops + 1
        /\ stores' = r.stores
        /\ added' = [added EXCEPT ![i] = WideAdd(@, ToWide(count))]
        /\ collapsed' = [collapsed EXCEPT ![i] = @ \/ now]
        /\ trail' = [trail EXCEPT ![i] =
                         Track(@, shadow, @.merged, GetCount(stores, s), count,
                               GetCount(r.stores, s), now, r.stores[s.store])]
        /\ UNCHANGED <<sketches, built, ds, probe, fed>>

\* sketches[i].MergeWith(sketches[j]) on bounded sketches
CollapsingMerge(i, j) ==
    LET s == sketches[i]
        r == MergeWith(stores, s, sketches[j])
        now == Collapses(r.stores, MergeWith(Unbounded(stores), s, sketches[j]).stores, s)
        tr == Track(trail[i], trail[i].shadow, TRUE, GetCount(stores, s),
                    GetCount(stores, sketches[j]), GetCount(r.stores, s), now,
                    r.stores[s.store])
    IN  /\ ops < MaxSteps
        /\ r.err = Nil
        /\ ops' = ops + 1
        /\ stores' = r.stores
        /\ added' = [added EXCEPT ![i] =
                         WideAdd(@, ToWide(GetCount(stores, sketches[j])))]
        /\ collapsed' = [collapsed EXCEPT ![i] = @ \/ now]
        /\ trail' = [trail EXCEPT ![i] =
                         [tr EXCEPT !.wrapped = @ \/ trail[j].wrapped]]
        /\ UNCHANGED <<sketches, built, ds, probe, fed>>

NextCollapse ==
    \/ \E i \in Bounded, value \in Indexable, count \in CollapseCounts :
           CollapsingAdd(i, value, count)
    \/ \E i, j \in Bounded : CollapsingMerge(i, j)

SpecCollapse == Init /\ [][NextCollapse]_vars

\* ------------------------------------------------------------ claims

\* What a caller can observe of sketch s in heap h.
Observable(h, s) ==
    [GetCount |-> GetCount(h, s),
     IsEmpty  |-> IsEmpty(h, s),
     Bins     |-> Bins(h, s),
     MinIndex |-> StoreMinIndex(h[s.store]),
     MaxIndex |-> StoreMaxIndex(h[s.store])]

Rejected(s, value, count) ==
    \/ value < MinIndexableValue(s.IndexMapping)
    \/ value > MaxIndexableValue(s.IndexMapping)
    \/ count < 0

\* C1: in every reachable state, AddWithCount returns an error exactly when
\* the value is below MinIndexableValue(), above MaxIndexableValue() or the
\* count is negative, and a call that returns an error leaves every store, and
\* with it GetCount, IsEmpty, Bins, MinIndex and MaxIndex of the sketch, as
\* they were.
C1_AddWithCountAllOrNothing ==
    \A i \in SketchIds, value \in Values, count \in Counts :
        LET r == AddWithCount(stores, sketches[i], value, count)
        IN  /\ (r.err # Nil) <=> Rejected(sketches[i], value, count)
            /\ r.err # Nil =>
                   /\ r.stores = stores
                   /\ Observable(r.stores, sketches[i]) = Observable(stores, sketches[i])

\* A sketch that holds two buckets rejects a value out of range and a
\* negative count.
C1_Witness ==
    \E i \in SketchIds :
        /\ Len(Bins(stores, sketches[i])) >= 2
        /\ AddWithCount(stores, sketches[i], TooLarge, 1).err = ErrValueOutOfRange
        /\ \E value \in Indexable :
               AddWithCount(stores, sketches[i], value, -1).err = ErrNegativeCount

\* C2: GetCount() of every sketch equals the sum of the counts added to it
\* and of the GetCount() of the sketches merged into it.
C2_CountConservation ==
    \A i \in SketchIds : ToWide(GetCount(stores, sketches[i])) = added[i]

\* C2, as far as the code goes: GetCount() is that sum reduced to 32 bits.
C2_CountConservationMod32 ==
    \A i \in SketchIds :
        LET w == ToWide(GetCount(stores, sketches[i]))
        IN  /\ w.lo = added[i].lo
            /\ (w.hi - added[i].hi) % Limb = 0

\* C3: a sketch built by LogCollapsingLowestDenseDDSketch or
\* LogCollapsingHighestDenseDDSketch with maxNumBins = B never holds more than
\* B buckets of nonzero count.
C3_BoundedCapacity ==
    \A i \in SketchIds :
        built[i].name \in {"LogCollapsingLowestDenseDDSketch",
                           "LogCollapsingHighestDenseDDSketch"}
            => Len(Bins(stores, sketches[i])) <= built[i].maxNumBins

\* A bounded sketch is full after its store collapsed buckets.
C3_Witness ==
    \E i \in SketchIds :
        /\ built[i].name = "LogCollapsingLowestDenseDDSketch"
        /\ collapsed[i]
        /\ Len(Bins(stores, sketches[i])) = built[i].maxNumBins

\* C4: in every reachable state, MergeWith on two sketches whose mappings are
\* not Equal returns the incompatible-mapping error and changes neither sketch.
C4_MergeCompatibility ==
    \A i, j \in SketchIds :
        LET r == MergeWith(stores, sketches[i], sketches[j])
        IN  ~Equals(sketches[i].IndexMapping, sketches[j].IndexMapping) =>
                /\ r.err = ErrIncompatibleMapping
                /\ r.stores = stores
                /\ Observable(r.stores, sketches[i]) = Observable(stores, sketches[i])
                /\ Observable(r.stores, sketches[j]) = Observable(stores, sketches[j])

\* Two sketches of different relative accuracy both hold values, and their
\* merge is refused.
C4_Witness ==
    \E i, j \in SketchIds :
        /\ sketches[i].IndexMapping.relativeAccuracy
               # sketches[j].IndexMapping.relativeAccuracy
        /\ GetCount(stores, sketches[i]) > 0
        /\ GetCount(stores, sketches[j]) > 0
        /\ MergeWith(stores, sketches[i], sketches[j]).err = ErrIncompatibleMapping

\* C5: while GetCount() is 0, GetValueAtQuantile and GetIndexAtQuantile (for
\* every q in [0,1]), GetMaxValue and GetMinValue return an error.
C5_EmptyStateReporting ==
    \A i \in SketchIds :
        LET s == sketches[i]
        IN  GetCount(stores, s) = 0 =>
                /\ \A q \in 0..QDen :
                       /\ GetIndexAtQuantile(stores, s, q).err # Nil
                       /\ GetValueAtQuantile(stores, s, q).err # Nil
                       /\ GetValueAtQuantile(stores, s, q).value = NaN
                /\ GetMaxValue(stores, s).err # Nil
                /\ GetMaxValue(stores, s).value = NaN
                /\ GetMinValue(stores, s).err # Nil
                /\ GetMinValue(stores, s).value = NaN

\* A sketch to which nothing was added successfully, beside one that holds
\* values, when every call allowed has been made.
C5_Witness ==
    /\ ops = MaxOps
    /\ \E i, j \in SketchIds :
           /\ GetCount(stores, sketches[i]) = 0
           /\ added[i] = ToWide(0)
           /\ AddWithCount(stores, sketches[i], TooSmall, 1).err # Nil
           /\ GetValueAtQuantile(stores, sketches[i], 0).err = ErrNoSuchElement
           /\ GetCount(stores, sketches[j]) > 0

Merged(h, a, b) == MergeWith(h, sketches[a], sketches[b]).stores

\* The merge of b into a in heap h succeeds and collapses nothing.
PlainMerge(h, a, b) ==
    /\ MergeWith(h, sketches[a], sketches[b]).err = Nil
    /\ ~Collapses(Merged(h, a, b), Merged(Unbounded(h), a, b), sketches[a])

\* What sketch a holds in heap h.
Contents(h, a) ==
    [Bins |-> Bins(h, sketches[a]), GetCount |-> GetCount(h, sketches[a])]

\* C7: for sketches of equal mappings whose stores never collapse, the merges
\* a <- b and b <- a give the same Bins and GetCount, and so do
\* (a <- b) <- c and a <- (b <- c), for a, b, c in every order.
C7_MergeCommutativeAssociative ==
    /\ \A a, b \in SketchIds :
           (/\ a # b
            /\ ~collapsed[a] /\ ~collapsed[b]
            /\ PlainMerge(stores, a, b) /\ PlainMerge(stores, b, a)) =>
               Contents(Merged(stores, a, b), a) = Contents(Merged(stores, b, a), b)
    /\ \A a, b, c \in SketchIds :
           (/\ a # b /\ b # c /\ a # c
            /\ ~collapsed[a] /\ ~collapsed[b] /\ ~collapsed[c]
            /\ PlainMerge(stores, a, b)
            /\ PlainMerge(Merged(stores, a, b), a, c)
            /\ PlainMerge(stores, b, c)
            /\ PlainMerge(Merged(stores, b, c), a, b)) =>
               Contents(Merged(Merged(stores, a, b), a, c), a)
                   = Contents(Merged(Merged(stores, b, c), a, b), a)

\* Three sketches of equal mappings hold values, and merging them collapses
\* nothing.
C7_Witness ==
    \E a, b, c \in SketchIds :
        /\ a # b /\ b # c /\ a # c
        /\ ~collapsed[a] /\ ~collapsed[b] /\ ~collapsed[c]
        /\ GetCount(stores, sketches[a]) # 0
        /\ GetCount(stores, sketches[b]) # 0
        /\ GetCount(stores, sketches[c]) # 0
        /\ Bins(stores, sketches[a]) # Bins(stores, sketches[b])
        /\ PlainMerge(stores, a, b)
        /\ PlainMerge(Merged(stores, a, b), a, c)
        /\ PlainMerge(stores, b, c)
        /\ PlainMerge(Merged(stores, b, c), a, b)

\* The store of sketch variable k is the same in heap h2 as in heap h; with it
\* GetCount, Bins, MinIndex and MaxIndex of the sketch are.
SameStore(h, h2, k) == h2[sketches[k].store] = h[sketches[k].store]

\* C8: in every reachable state, the copy of a sketch shows the GetCount,
\* Bins, MinIndex and MaxIndex of the sketch, and an AddWithCount or MergeWith
\* on one sketch changes the store of no other sketch, the copies of it and
\* what it is a copy of included.
C8_CopyIndependence ==
    /\ \A i, j \in SketchIds :
           i # j =>
               LET r == Copy(stores, sketches[i], FreshRef(j))
               IN  /\ Observable(r.stores, r.sketch) = Observable(stores, sketches[i])
                   /\ r.sketch.IndexMapping = sketches[i].IndexMapping
                   /\ \A k \in SketchIds \ {j} : SameStore(stores, r.stores, k)
    /\ \A i \in SketchIds, value \in Indexable, count \in Counts :
           \A k \in SketchIds \ {i} :
               SameStore(stores, AddWithCount(stores, sketches[i], value, count).stores, k)
    /\ \A i, j \in SketchIds :
           \A k \in SketchIds \ {i} :
               SameStore(stores, MergeWith(stores, sketches[i], sketches[j]).stores, k)

\* A sketch and a copy of it hold different values: one of them changed
\* after the copy was made.
C8_Witness ==
    \E i, j \in SketchIds :
        /\ i # j
        /\ built[i] = built[j]
        /\ GetCount(stores, sketches[i]) # 0
        /\ GetCount(stores, sketches[j]) # 0
        /\ Bins(stores, sketches[i]) # Bins(stores, sketches[j])

\* The sequences of at most n elements of S.
SeqsUpTo(S, n) == UNION {[1..k -> S] : k \in 0..n}

\* The error GetValuesAtQuantiles is to return: that of the first quantile of
\* the sequence on which GetValueAtQuantile fails.
FirstError(h, s, quantiles) ==
    LET failing == {k \in DOMAIN quantiles : GetValueAtQuantile(h, s, quantiles[k]).err # Nil}
    IN  GetValueAtQuantile(h, s, quantiles[MinOf(failing)]).err

\* C9: GetValuesAtQuantiles returns an error when a quantile of the sequence
\* is outside [0,1] or the sketch is empty; it then returns nil values and the
\* error of the first failing quantile.
C9_ValuesAtQuantilesError ==
    \A i \in SketchIds, quantiles \in SeqsUpTo(Quantiles, MaxQuantiles) :
        LET s == sketches[i]
            r == GetValuesAtQuantiles(stores, s, quantiles)
        IN  (\/ \E k \in DOMAIN quantiles : quantiles[k] < 0 \/ quantiles[k] > QDen
             \/ GetCount(stores, s) = 0) =>
                /\ r.err # Nil
                /\ r.values = Nil
                /\ r.err = FirstError(stores, s, quantiles)

\* C9 for the sequences that hold a quantile: the code returns the error of
\* the first failing quantile and nil values, and otherwise one value for each
\* quantile.
C9_NonEmptySequences ==
    \A i \in SketchIds, quantiles \in SeqsUpTo(Quantiles, MaxQuantiles) \ {<<>>} :
        LET s == sketches[i]
            r == GetValuesAtQuantiles(stores, s, quantiles)
        IN  IF \/ \E k \in DOMAIN quantiles : quantiles[k] < 0 \/ quantiles[k] > QDen
               \/ GetCount(stores, s) = 0
            THEN /\ r.err # Nil
                 /\ r.values = Nil
                 /\ r.err = FirstError(stores, s, quantiles)
            ELSE /\ r.err = Nil
                 /\ \A k \in DOMAIN quantiles :
                        r.values[k] = GetValueAtQuantile(stores, s, quantiles[k]).value

RECURSIVE WideSum(_)
\* The sum of the counts of a sequence of bins, as a mathematical integer.
WideSum(bins) ==
    IF bins = <<>>
    THEN ToWide(0)
    ELSE WideAdd(ToWide(Head(bins).count), WideSum(Tail(bins)))

\* Bins() of sketch i lists the buckets of its store: every bucket once, none
\* of count zero, in strictly ascending order of index.
BinsListed(i) ==
    LET bins == Bins(stores, sketches[i])
        held == stores[sketches[i].store].bins
    IN  /\ \A k \in 1 .. (Len(bins) - 1) : bins[k].index < bins[k + 1].index
        /\ \A k \in DOMAIN bins : bins[k].count # 0
        /\ {<<bins[k].index, bins[k].count>> : k \in DOMAIN bins}
               = {<<j, held[j]>> : j \in DOMAIN held}

\* C11: Bins() is the sequence of the (index, count) pairs of the buckets of
\* nonzero count, in strictly ascending order of index, and the counts of
\* these bins sum to GetCount().
C11_BinsSumToCount ==
    \A i \in SketchIds :
        /\ BinsListed(i)
        /\ WideSum(Bins(stores, sketches[i])) = ToWide(GetCount(stores, sketches[i]))

\* C11 without the sum: the bins are the buckets, ascending and nonzero, and
\* their counts sum to GetCount() modulo 2^32.
C11_BinsAscending ==
    \A i \in SketchIds :
        /\ BinsListed(i)
        /\ WideSum(Bins(stores, sketches[i])).lo
               = ToWide(GetCount(stores, sketches[i])).lo

\* value lies between the smallest and the largest indexable value of m.
IsIndexable(m, value) ==
    value >= MinIndexableValue(m) /\ value <= MaxIndexableValue(m)

\* The raw index of value is a whole number.
WholeRaw(m, value) == RawIndex(m, value) % (Unit * Unit) = 0

\* The raw index of value, truncated toward negative infinity.
Floor(m, value) == RawIndex(m, value) \div (Unit * Unit)

\* C12: for every mapping and every indexable value v,
\* |Value(Index(v)) / v - 1| <= relativeAccuracy: on the logarithms,
\* log(1 - alpha) <= log Value(Index(v)) - log v <= log(1 + alpha).
C12_ReconstructionBound ==
    (probe.pc = "valued" /\ IsIndexable(probe.m, probe.value)) =>
        LET alpha == probe.m.relativeAccuracy
            error == probe.back - probe.value
        IN  /\ error >= Log2(alpha.den - alpha.num, alpha.den)
            /\ error <= Log2(alpha.den + alpha.num, alpha.den)

\* An indexable value whose raw index is a negative whole number went
\* through Index and Value, and the relative error is the whole of alpha.
C12_Witness ==
    /\ probe.pc = "valued"
    /\ IsIndexable(probe.m, probe.value)
    /\ WholeRaw(probe.m, probe.value)
    /\ RawIndex(probe.m, probe.value) < 0
    /\ probe.back - probe.value
           = Log2(probe.m.relativeAccuracy.den - probe.m.relativeAccuracy.num,
                  probe.m.relativeAccuracy.den)

\* C13: Index(value) is the raw index ln(value) * multiplier +
\* normalizedIndexOffset truncated toward negative infinity, whole raw
\* indices included.
C13_IndexIsFloor ==
    (probe.pc \in {"indexed", "valued"} /\ IsIndexable(probe.m, probe.value)) =>
        probe.index = Floor(probe.m, probe.value)

\* C13 away from the negative whole numbers: there Index is the floor of the
\* raw index; at a negative whole raw index it is one less.
C13_FloorButNegativeWhole ==
    (probe.pc \in {"indexed", "valued"} /\ IsIndexable(probe.m, probe.value)) =>
        probe.index =
            IF WholeRaw(probe.m, probe.value) /\ RawIndex(probe.m, probe.value) < 0
            THEN Floor(probe.m, probe.value) - 1
            ELSE Floor(probe.m, probe.value)

\* C14: for two indexable values v1 <= v2 of one mapping,
\* Index(v1) <= Index(v2).
C14_IndexMonotone ==
    (probe.pc = "indexed" /\ IsIndexable(probe.m, probe.value)) =>
        \A v2 \in ProbeValues :
            IsIndexable(probe.m, v2) =>
                /\ probe.value <= v2 => probe.index <= Index(probe.m, v2)
                /\ v2 <= probe.value => Index(probe.m, v2) <= probe.index

\* The value indexed has a negative whole raw index; among the values it is
\* compared with are one of raw index zero, one of a positive whole raw
\* index and one of a smaller, fractional raw index.
C14_Witness ==
    /\ probe.pc = "indexed"
    /\ IsIndexable(probe.m, probe.value)
    /\ WholeRaw(probe.m, probe.value)
    /\ probe.index < 0
    /\ \E v0, v1, v2 \in ProbeValues :
           /\ IsIndexable(probe.m, v0) /\ RawIndex(probe.m, v0) = 0
           /\ IsIndexable(probe.m, v1) /\ WholeRaw(probe.m, v1) /\ Index(probe.m, v1) > 0
           /\ IsIndexable(probe.m, v2) /\ ~WholeRaw(probe.m, v2) /\ v2 < probe.value

\* Only adds went into bounded sketch i, one of them with a nonzero count.
OnlyAdds(i) ==
    /\ i \in Bounded
    /\ ~trail[i].merged
    /\ DOMAIN trail[i].shadow # {}

\* The store of sketch i kept the end it does not collapse: a
\* collapsing-lowest store holds, as MaxIndex, the largest index added and
\* the exact count of every bucket above its lowest one; a collapsing-highest
\* store holds, as MinIndex, the smallest index added.
KeptEnd(i) ==
    LET st == stores[sketches[i].store]
        shadow == trail[i].shadow
    IN  IF st.kind = "lowest"
        THEN /\ StoreMaxIndex(st).err = Nil
             /\ StoreMaxIndex(st).index = MaxOf(DOMAIN shadow)
             /\ \A j \in DOMAIN st.bins :
                    j > MinOf(DOMAIN st.bins) =>
                        j \in DOMAIN shadow /\ ToWide(st.bins[j]) = shadow[j]
        ELSE /\ StoreMinIndex(st).err = Nil
             /\ StoreMinIndex(st).index = MinOf(DOMAIN shadow)

\* C15: after any sequence of adds, a collapsing-lowest sketch has as
\* MaxIndex the largest index ever added with a nonzero count and holds the
\* exact count of each bucket above its lowest one; a collapsing-highest
\* sketch has as MinIndex the smallest index ever added with a nonzero count.
C15_CollapseDirection ==
    \A i \in SketchIds : OnlyAdds(i) => KeptEnd(i)

\* C15 while no count has passed MaxInt32.
C15_DirectionWithoutOverflow ==
    \A i \in SketchIds : (OnlyAdds(i) /\ ~trail[i].wrapped) => KeptEnd(i)

\* No index below the limit of a collapsing-lowest store (above that of a
\* collapsing-highest store) holds a bucket.
WithinLimit(i) ==
    LET st == stores[sketches[i].store]
    IN  \A j \in DOMAIN st.bins :
            IF st.kind = "lowest" THEN j >= trail[i].limit ELSE j <= trail[i].limit

C16_IrreversibleWithoutOverflow ==
    \A i \in Bounded : (trail[i].limited /\ ~trail[i].wrapped) => WithinLimit(i)

\* Sketch variables a and b hold two unbounded sketches that can be merged.
UnboundedPair(a, b) ==
    /\ a # b
    /\ built[a].name = "LogUnboundedDenseDDSketch"
    /\ built[b].name = "LogUnboundedDenseDDSketch"
    /\ MergeWith(stores, sketches[a], sketches[b]).err = Nil

\* The indices at which sketch a or sketch b holds a bucket.
IndicesOf(a, b) ==
    DOMAIN stores[sketches[a].store].bins \cup DOMAIN stores[sketches[b].store].bins

\* sketches[a].MergeWith(sketches[b]) leaves sketch b as it was.
LeavesOther(a, b) ==
    LET h2 == MergeWith(stores, sketches[a], sketches[b]).stores
    IN  /\ h2[sketches[b].store] = stores[sketches[b].store]
        /\ GetCount(h2, sketches[b]) = GetCount(stores, sketches[b])
        /\ Bins(h2, sketches[b]) = Bins(stores, sketches[b])

\* C17: a successful a.MergeWith(b) on unbounded sketches makes the count of a
\* at every index its count before plus the count of b at that index, and
\* leaves GetCount and Bins of b unchanged.
C17_MergeAddsBuckets ==
    \A a, b \in SketchIds :
        UnboundedPair(a, b) =>
            LET h2 == MergeWith(stores, sketches[a], sketches[b]).stores
            IN  /\ LeavesOther(a, b)
                /\ \A j \in IndicesOf(a, b) \cup DOMAIN h2[sketches[a].store].bins :
                       ToWide(CountAt(h2[sketches[a].store].bins, j))
                           = WideAdd(ToWide(CountAt(stores[sketches[a].store].bins, j)),
                                     ToWide(CountAt(stores[sketches[b].store].bins, j)))

\* C17 in 32-bit arithmetic: the count of a at every index is the int32 sum
\* of the two counts, and b is left unchanged.
C17_MergeAddsBucketsMod32 ==
    \A a, b \in SketchIds :
        UnboundedPair(a, b) =>
            LET h2 == MergeWith(stores, sketches[a], sketches[b]).stores
            IN  /\ LeavesOther(a, b)
                /\ \A j \in IndicesOf(a, b) \cup DOMAIN h2[sketches[a].store].bins :
                       CountAt(h2[sketches[a].store].bins, j)
                           = Add32(CountAt(stores[sketches[a].store].bins, j),
                                   CountAt(stores[sketches[b].store].bins, j))

\* GetIndexAtQuantile(0) and (1) of sketch s are MinIndex and MaxIndex of its
\* store, GetValueAtQuantile(0) and (1) are GetMinValue() and GetMaxValue(),
\* and GetIndexAtQuantile does not decrease as the quantile grows.
EndpointsAndOrder(h, s) ==
    /\ \A q \in 0 .. QDen : GetIndexAtQuantile(h, s, q).err = Nil
    /\ StoreMinIndex(h[s.store]).err = Nil
    /\ StoreMaxIndex(h[s.store]).err = Nil
    /\ GetIndexAtQuantile(h, s, 0).index = StoreMinIndex(h[s.store]).index
    /\ GetIndexAtQuantile(h, s, QDen).index = StoreMaxIndex(h[s.store]).index
    /\ GetValueAtQuantile(h, s, 0) = GetMinValue(h, s)
    /\ GetValueAtQuantile(h, s, QDen) = GetMaxValue(h, s)
    /\ \A q1, q2 \in 0 .. QDen :
           q1 <= q2 => GetIndexAtQuantile(h, s, q1).index
                           <= GetIndexAtQuantile(h, s, q2).index

\* C18: on every sketch that is not empty, GetIndexAtQuantile(0) is MinIndex,
\* GetIndexAtQuantile(1) is MaxIndex, GetValueAtQuantile(0) and (1) are
\* GetMinValue() and GetMaxValue(), and q1 <= q2 gives
\* GetIndexAtQuantile(q1) <= GetIndexAtQuantile(q2).
C18_QuantileEndpoints ==
    \A i \in SketchIds :
        ~IsEmpty(stores, sketches[i]) => EndpointsAndOrder(stores, sketches[i])

\* The buckets of sketch i hold positive counts that sum to at most MaxInt32.
NoOverflow(i) ==
    LET bins == Bins(stores, sketches[i])
    IN  /\ \A k \in DOMAIN bins : bins[k].count > 0
        /\ WideSum(bins).hi < Limb \div 2

\* C18 while the count has not passed MaxInt32.
C18_EndpointsWithoutOverflow ==
    \A i \in SketchIds :
        (~IsEmpty(stores, sketches[i]) /\ NoOverflow(i)) =>
            EndpointsAndOrder(stores, sketches[i])

\* C19: after any sequence of successful AddWithCount calls with counts from
\* 0 to MaxInt32 and successful MergeWith calls, GetCount() is not negative
\* and no bucket holds a negative count.
C19_CountNeverNegative ==
    \A i \in SketchIds :
        /\ GetCount(stores, sketches[i]) >= 0
        /\ \A k \in DOMAIN Bins(stores, sketches[i]) :
               Bins(stores, sketches[i])[k].count >= 0

\* ------------------------------------------------------------ dataset runs

\* The longest dataset merged into the reference Dataset.
MaxOther == 2

RECURSIVE InsertAll(_, _)
\* The ascending sequence s with every element of values put in.
InsertAll(s, values) ==
    IF values = <<>> THEN s ELSE InsertAll(Insert(s, Head(values)), Tail(values))

\* The datasets merged in: built by Add from up to MaxOther values.
Others == {MergeLoop(NewDataset, values) : values \in SeqsUpTo(Values, MaxOther)}

DataAdd(value) ==
    /\ Len(ds.Values) < MaxFeed
    /\ ds' = DatasetAdd(ds, value)
    /\ fed' = Insert(fed, value)
    /\ UNCHANGED <<sketches, stores, added, collapsed, built, ops, probe, trail>>

\* ds.Merge(o), for another dataset o and for o = ds.
DataMerge(o) ==
    /\ o.Values # <<>>
    /\ Len(ds.Values) + Len(o.Values) <= MaxFeed
    /\ ds' = DatasetMerge(ds, o)
    /\ fed' = InsertAll(fed, o.Values)
    /\ UNCHANGED <<sketches, stores, added, collapsed, built, ops, probe, trail>>

\* ds.Min(); on an empty dataset the call panics and the run ends.
DataMin ==
    /\ ~DatasetMin(ds).panic
    /\ ds' = DatasetMin(ds).d
    /\ UNCHANGED <<sketches, stores, added, collapsed, built, ops, probe, trail, fed>>

\* ds.Max(); on an empty dataset the call panics and the run ends.
DataMax ==
    /\ ~DatasetMax(ds).panic
    /\ ds' = DatasetMax(ds).d
    /\ UNCHANGED <<sketches, stores, added, collapsed, built, ops, probe, trail, fed>>

NextData ==
    \/ \E value \in Values : DataAdd(value)
    \/ \E o \in Others \cup {ds} : DataMerge(o)
    \/ \E q \in Quantiles : AskQuantile(q)
    \/ DataMin
    \/ DataMax

SpecData == Init /\ [][NextData]_vars

\* C20: after any interleaving of Add, Merge, Quantile, Min and Max, Count is
\* the number of values stored, the values stored are the values added, the
\* sorted flag is set only while Values is ascending, and on a dataset that
\* is not empty Quantile(q), q in [0,1], is the element at position
\* floor(q * (Count - 1)) of the values added in ascending order; Min() and
\* Max() are the first and the last of them.
C20_DatasetNeverStale ==
    /\ ds.Count = Len(ds.Values)
    /\ Float64s(ds.Values) = fed
    /\ ds.sorted => ds.Values = fed
    /\ fed # <<>> =>
           /\ \A q \in 0 .. QDen :
                  Quantile(ds, q).value = fed[MulQuantile(q, Len(fed) - 1).int + 1]
           /\ ~DatasetMin(ds).panic /\ DatasetMin(ds).value = fed[1]
           /\ ~DatasetMax(ds).panic /\ DatasetMax(ds).value = fed[Len(fed)]

\* The dataset was sorted by a query, and then a value smaller than its
\* largest one was added or merged in: Values is out of order, the flag is
\* down.
C20_Witness ==
    /\ Len(ds.Values) >= 3
    /\ ~ds.sorted
    /\ ds.Values[1] < ds.Values[2]
    /\ ds.Values[Len(ds.Values)] < ds.Values[1]
    /\ Quantile(ds, QDen).value = ds.Values[2]

====
